---- MODULE Spec2Model ----
(***************************************************************************)
(* The Chat page of the messaging client (pages/Chat.tsx): the message log *)
(* of the active conversation, the optimistic-message matcher, the typing  *)
(* guard with its two timers, and the conversation session controller.     *)
(* Every handler of the component is one action; time is a millisecond     *)
(* clock advanced in steps of 1000 ms, and a timer fires at its deadline.  *)
(***************************************************************************)
EXTENDS Integers, Sequences, FiniteSets, TLC

VARIABLES
    activeChat,               \* useState activeChat: the peer's userId, or None
    messages,                 \* useState messages: the log of the active conversation
    inputText,                \* useState inputText
    isTyping,                 \* useState isTyping: the peer-is-typing flag
    isLoading,                \* useState isLoading
    senderTypingTimeout,      \* senderTypingTimeoutRef: the pending idle timer
    receiverTypingTimeout,    \* receiverTypingTimeoutRef: the pending stale timer
    now,                      \* the clock, in ms
    historyFetches,           \* outstanding history requests of selectChat, per peer
    imageUploads,             \* outstanding image uploads of handleFileUpload, per captured peer
    voiceUploads,             \* outstanding voice uploads of handleVoiceRecorded: tempId and captured peer
    emitted,                  \* the socket events emitted by the latest handler, in order
    toast,                    \* the notice shown by the latest handler (showToast), or NoToast
    refreshed,                \* the lists the latest handler asked to refresh: "friends", "requests"
    user,                     \* App: useState user, the logged-in user or None
    chatUser,                 \* localStorage item 'chatUser': a string, or None when absent
    loading,                  \* App: useState loading
    socket,                   \* services/api.ts: the module's socket, as the userId of its query, or None
    last                      \* the latest handler and a note on it (history variable)

vars == <<activeChat, messages, inputText, isTyping, isLoading, senderTypingTimeout,
          receiverTypingTimeout, now, historyFetches, imageUploads, voiceUploads,
          emitted, toast, refreshed, user, chatUser, loading, socket, last>>

\* the state of App and of the services module, which the Chat handlers leave alone
appVars == <<user, chatUser, loading, socket>>

(***************************************************************************)
(* Bounds of the model.                                                    *)
(***************************************************************************)
MaxTicks == 6
LogTicks == 2
MaxLog == 2
MaxInFlight == 2
MaxDeletes == 2

(***************************************************************************)
(* Program constants.                                                      *)
(***************************************************************************)
PLACEHOLDER_LEN == 20
MERGE_WINDOW_MS == 5000
SENDER_IDLE_MS == 2000
RECEIVER_STALE_MS == 5000

None == "none"
Me == "me"
Peers == {"A", "B"}
\* Math.random().toString(36).substr(2, 9): nine characters
TempIds == <<"k3j9x0a1b", "p0q8z7y6w", "m5n4b3v2c", "r7t6u5i4o">>

Abs(x) == IF x < 0 THEN -x ELSE x

\* A Message of types.ts. An optional field that is absent holds None
\* (isRead, isRecalled: FALSE; deletedBy: the empty list; _id: "").
Message(id, from, to, content, type, ts, status, blobUrl) ==
    [id |-> id, from |-> from, to |-> to, content |-> content, type |-> type,
     ts |-> ts, status |-> status, blobUrl |-> blobUrl,
     isRead |-> FALSE, isRecalled |-> FALSE, deletedBy |-> <<>>]

\* The fields a message coming from the server carries.
ServerFields == {"id", "from", "to", "content", "type", "ts", "isRead", "isRecalled", "deletedBy"}

\* The conversations of the local user, by direction: <<sender, recipient>>
Directions == <<<<Me, "A">>, <<"A", Me>>, <<Me, "B">>, <<"B", Me>>>>
ContentSeq == <<"hi", "yo">>
TypeSeq == <<"text", "image">>
TimeSeq == <<0, MERGE_WINDOW_MS>>
\* how many messages of one sender, recipient, content, type and timestamp
\* the server holds
Serials == 1..2

\* server-assigned identifiers, 24 characters: an identifier names one message
SrvIds == <<
    "65a1f0c2e4b0a1b2c3d4e501", "65a1f0c2e4b0a1b2c3d4e502", "65a1f0c2e4b0a1b2c3d4e503", "65a1f0c2e4b0a1b2c3d4e504",
    "65a1f0c2e4b0a1b2c3d4e505", "65a1f0c2e4b0a1b2c3d4e506", "65a1f0c2e4b0a1b2c3d4e507", "65a1f0c2e4b0a1b2c3d4e508",
    "65a1f0c2e4b0a1b2c3d4e509", "65a1f0c2e4b0a1b2c3d4e50a", "65a1f0c2e4b0a1b2c3d4e50b", "65a1f0c2e4b0a1b2c3d4e50c",
    "65a1f0c2e4b0a1b2c3d4e50d", "65a1f0c2e4b0a1b2c3d4e50e", "65a1f0c2e4b0a1b2c3d4e50f", "65a1f0c2e4b0a1b2c3d4e510",
    "65a1f0c2e4b0a1b2c3d4e511", "65a1f0c2e4b0a1b2c3d4e512", "65a1f0c2e4b0a1b2c3d4e513", "65a1f0c2e4b0a1b2c3d4e514",
    "65a1f0c2e4b0a1b2c3d4e515", "65a1f0c2e4b0a1b2c3d4e516", "65a1f0c2e4b0a1b2c3d4e517", "65a1f0c2e4b0a1b2c3d4e518",
    "65a1f0c2e4b0a1b2c3d4e519", "65a1f0c2e4b0a1b2c3d4e51a", "65a1f0c2e4b0a1b2c3d4e51b", "65a1f0c2e4b0a1b2c3d4e51c",
    "65a1f0c2e4b0a1b2c3d4e51d", "65a1f0c2e4b0a1b2c3d4e51e", "65a1f0c2e4b0a1b2c3d4e51f", "65a1f0c2e4b0a1b2c3d4e520",
    "65a1f0c2e4b0a1b2c3d4e521", "65a1f0c2e4b0a1b2c3d4e522", "65a1f0c2e4b0a1b2c3d4e523", "65a1f0c2e4b0a1b2c3d4e524",
    "65a1f0c2e4b0a1b2c3d4e525", "65a1f0c2e4b0a1b2c3d4e526", "65a1f0c2e4b0a1b2c3d4e527", "65a1f0c2e4b0a1b2c3d4e528",
    "65a1f0c2e4b0a1b2c3d4e529", "65a1f0c2e4b0a1b2c3d4e52a", "65a1f0c2e4b0a1b2c3d4e52b", "65a1f0c2e4b0a1b2c3d4e52c",
    "65a1f0c2e4b0a1b2c3d4e52d", "65a1f0c2e4b0a1b2c3d4e52e", "65a1f0c2e4b0a1b2c3d4e52f", "65a1f0c2e4b0a1b2c3d4e530",
    "65a1f0c2e4b0a1b2c3d4e531", "65a1f0c2e4b0a1b2c3d4e532", "65a1f0c2e4b0a1b2c3d4e533", "65a1f0c2e4b0a1b2c3d4e534",
    "65a1f0c2e4b0a1b2c3d4e535", "65a1f0c2e4b0a1b2c3d4e536", "65a1f0c2e4b0a1b2c3d4e537", "65a1f0c2e4b0a1b2c3d4e538",
    "65a1f0c2e4b0a1b2c3d4e539", "65a1f0c2e4b0a1b2c3d4e53a", "65a1f0c2e4b0a1b2c3d4e53b", "65a1f0c2e4b0a1b2c3d4e53c",
    "65a1f0c2e4b0a1b2c3d4e53d", "65a1f0c2e4b0a1b2c3d4e53e", "65a1f0c2e4b0a1b2c3d4e53f", "65a1f0c2e4b0a1b2c3d4e540" >>

SrvId(d, c, ty, t, n) == SrvIds[((((d - 1) * 2 + (c - 1)) * 2 + (ty - 1)) * 2 + (t - 1)) * 2 + n]

\* The messages of the server: what receiveMessage, messageSent and the
\* history request deliver.
ServerMsgs ==
    { Message(SrvId(d, c, ty, t, n), Directions[d][1], Directions[d][2],
              ContentSeq[c], TypeSeq[ty], TimeSeq[t], None, None) :
        d \in 1..4, c \in 1..2, ty \in 1..2, t \in 1..2, n \in Serials }

\* (m._id?.length || 0) < 20
IsPlaceholder(m) == Len(m.id) < PLACEHOLDER_LEN

\* { ...old, ...new } where new carries `fields`
Overlay(old, new, fields) ==
    [f \in DOMAIN old |-> IF f \in fields THEN new[f] ELSE old[f]]

\* prev.findIndex(m => m.content === msg.content && m.messageType ===
\* msg.messageType && (m._id?.length || 0) < 20), 1-based; 0 for -1
FindOptimistic(prev, msg) ==
    LET hit == {i \in 1..Len(prev) :
                  /\ prev[i].content = msg.content
                  /\ prev[i].type = msg.type
                  /\ IsPlaceholder(prev[i])}
    IN  IF hit = {} THEN 0 ELSE CHOOSE i \in hit : \A j \in hit : i <= j

\* prev.some(m => m._id === msg._id)
HasId(prev, id) == \E i \in 1..Len(prev) : prev[i].id = id

\* mergeReceived without the identity-existence check
mergeReceived_NoDedup(prev, msg) ==
    LET optimisticIndex == IF msg.from = Me THEN FindOptimistic(prev, msg) ELSE 0
    IN  IF optimisticIndex # 0 /\ Abs(prev[optimisticIndex].ts - msg.ts) < MERGE_WINDOW_MS
        THEN [prev EXCEPT ![optimisticIndex] =
                  [Overlay(prev[optimisticIndex], msg, ServerFields)
                      EXCEPT !.status = "sent", !.id = msg.id]]
        ELSE Append(prev, msg)

\* mergeReceived with the window test written <= instead of <
mergeReceived_WideWindow(prev, msg) ==
    IF HasId(prev, msg.id) THEN prev
    ELSE
      LET optimisticIndex == IF msg.from = Me THEN FindOptimistic(prev, msg) ELSE 0
      IN  IF optimisticIndex # 0 /\ Abs(prev[optimisticIndex].ts - msg.ts) <= MERGE_WINDOW_MS
          THEN [prev EXCEPT ![optimisticIndex] =
                    [Overlay(prev[optimisticIndex], msg, ServerFields)
                        EXCEPT !.status = "sent", !.id = msg.id]]
          ELSE Append(prev, msg)

\* mergeReceived putting a new message at the head of the log
mergeReceived_Prepends(prev, msg) ==
    IF HasId(prev, msg.id) THEN prev
    ELSE
      LET optimisticIndex == IF msg.from = Me THEN FindOptimistic(prev, msg) ELSE 0
      IN  IF optimisticIndex # 0 /\ Abs(prev[optimisticIndex].ts - msg.ts) < MERGE_WINDOW_MS
          THEN [prev EXCEPT ![optimisticIndex] =
                    [Overlay(prev[optimisticIndex], msg, ServerFields)
                        EXCEPT !.status = "sent", !.id = msg.id]]
          ELSE <<msg>> \o prev

\* mergeReceived searching a placeholder for any sender's message
mergeReceived_AnySender(prev, msg) ==
    IF HasId(prev, msg.id) THEN prev
    ELSE
      LET optimisticIndex == FindOptimistic(prev, msg)
      IN  IF optimisticIndex # 0 /\ Abs(prev[optimisticIndex].ts - msg.ts) < MERGE_WINDOW_MS
          THEN [prev EXCEPT ![optimisticIndex] =
                    [Overlay(prev[optimisticIndex], msg, ServerFields)
                        EXCEPT !.status = "sent", !.id = msg.id]]
          ELSE Append(prev, msg)

\* The setMessages updater of handleReceiveMessage.
mergeReceived(prev, msg) ==
    IF HasId(prev, msg.id) THEN prev
    ELSE
      LET optimisticIndex == IF msg.from = Me THEN FindOptimistic(prev, msg) ELSE 0
      IN  IF optimisticIndex # 0 /\ Abs(prev[optimisticIndex].ts - msg.ts) < MERGE_WINDOW_MS
          THEN [prev EXCEPT ![optimisticIndex] =
                    [Overlay(prev[optimisticIndex], msg, ServerFields)
                        EXCEPT !.status = "sent", !.id = msg.id]]
          ELSE Append(prev, msg)

\* The log handleReceiveMessage leaves: the updater, when the message passes
\* the active-conversation filter.
receivedLog(active, prev, msg) ==
    IF active # None /\ (msg.from = active \/ msg.to = active)
    THEN mergeReceived(prev, msg)
    ELSE prev

\* mergeSent forgetting to take the confirmation's identity
mergeSent_KeepsId(prev, data) ==
    [i \in 1..Len(prev) |->
        IF /\ prev[i].from = Me
           /\ prev[i].content = data.content
           /\ IsPlaceholder(prev[i])
           /\ Abs(data.ts - prev[i].ts) < MERGE_WINDOW_MS
        THEN [prev[i] EXCEPT !.ts = data.ts, !.status = "sent"]
        ELSE prev[i]]

\* The setMessages updater of handleMessageSent.
mergeSent(prev, data) ==
    [i \in 1..Len(prev) |->
        IF /\ prev[i].from = Me
           /\ prev[i].content = data.content
           /\ IsPlaceholder(prev[i])
           /\ Abs(data.ts - prev[i].ts) < MERGE_WINDOW_MS
        THEN [prev[i] EXCEPT !.id = data.id, !.ts = data.ts, !.status = "sent"]
        ELSE prev[i]]

\* msg.deletedBy?.some(d => d.userId === userId)
DeletedFor(m, userId) == \E k \in 1..Len(m.deletedBy) : m.deletedBy[k].userId = userId

\* the render filter hiding an entry that anyone has deleted
Shown_AnyActor(log) == {i \in 1..Len(log) : log[i].deletedBy = <<>>}

\* messages.filter(msg => !msg.deletedBy?.some(d => d.userId === user.userId)):
\* the indices of the log the local user is shown, in order
Shown(log) == {i \in 1..Len(log) : ~DeletedFor(log[i], Me)}

\* What MessageBubble draws for an entry: a notice for a recalled message,
\* else a bubble with the content and the menu entries the entry offers.
MessageBubble(m) ==
    IF m.isRecalled
    THEN [kind |-> "notice", text |-> IF m.from = Me THEN "chat.youRecalled" ELSE "chat.recalled",
          content |-> None, canRecall |-> FALSE, canDelete |-> FALSE]
    ELSE [kind |-> "bubble", text |-> None, content |-> m.content,
          canRecall |-> (m.from = Me /\ m.status = "sent"), canDelete |-> TRUE]

\* the identities onRecall / onDelete can be called with from the shown log
RecallMenu(log) == {log[i].id : i \in {j \in Shown(log) : MessageBubble(log[j]).canRecall}}
DeleteMenu(log) == {log[i].id : i \in {j \in Shown(log) : MessageBubble(log[j]).canDelete}}

\* prev.map(msg => msg._id === messageId ? { ...msg, isRecalled: true } : msg)
markRecalled(prev, messageId) ==
    [i \in 1..Len(prev) |->
        IF prev[i].id = messageId THEN [prev[i] EXCEPT !.isRecalled = TRUE] ELSE prev[i]]

\* prev.map(msg => msg._id === messageId
\*     ? { ...msg, deletedBy: [...(msg.deletedBy || []), { userId, deletedAt }] } : msg)
markDeleted(prev, messageId, userId, deletedAt) ==
    [i \in 1..Len(prev) |->
        IF prev[i].id = messageId
        THEN [prev[i] EXCEPT !.deletedBy =
                  Append(@, [userId |-> userId, deletedAt |-> deletedAt])]
        ELSE prev[i]]

\* markRead rebuilding the entry from its content fields only
markRead_DropsFlags(prev) ==
    [i \in 1..Len(prev) |->
        IF prev[i].from = Me
        THEN [prev[i] EXCEPT !.isRead = TRUE, !.isRecalled = FALSE]
        ELSE prev[i]]

\* markRead marking every entry, the peer's included
markRead_AllEntries(prev) ==
    [i \in 1..Len(prev) |-> [prev[i] EXCEPT !.isRead = TRUE]]

\* prev.map(m => m.fromUserId === user.userId ? { ...m, isRead: true } : m)
markRead(prev) ==
    [i \in 1..Len(prev) |->
        IF prev[i].from = Me THEN [prev[i] EXCEPT !.isRead = TRUE] ELSE prev[i]]

\* every entry a delete of messageId would touch still has room in deletedBy
DeleteRoom(prev, messageId) ==
    \A i \in 1..Len(prev) : prev[i].id = messageId => Len(prev[i].deletedBy) < MaxDeletes

\* A live timeout: its deadline, the peer its callback captured, and whether
\* the ref still holds its handle.
Timeout(at, to) == [at |-> at, to |-> to, cur |-> TRUE]
\* clearTimeout(ref.current)
ClearTimeout(timers) == {t \in timers : ~t.cur}
\* ref.current = setTimeout(callback, delay)
SetTimeout(timers, at, to) ==
    {[t EXCEPT !.cur = FALSE] : t \in timers} \cup {Timeout(at, to)}
Due(timers) == \E t \in timers : t.at <= now

Emit(ev, to) == [ev |-> ev, to |-> to]
Last(op, arg) == [op |-> op, arg |-> arg]
\* showToast(message, type)
Toast(message, type) == [message |-> message, type |-> type]
\* no notice shown
NoToast == Toast("", "")

\* Math.random().toString(36).substr(2, 9): identifiers are interchangeable,
\* the first one the log does not hold is taken
FreshTempId(prev) ==
    TempIds[CHOOSE k \in 1..Len(TempIds) :
                /\ ~HasId(prev, TempIds[k])
                /\ \A j \in 1..(k - 1) : HasId(prev, TempIds[j])]

InFlight(f) == f["A"] + f["B"]

\* the accounts that can log in on this page
Users == {Me, "u2"}
\* JSON.stringify(data) of an AuthResponse
Stringify(data) == "{\"userId\":\"" \o data \o "\"}"
\* what localStorage can hold under 'chatUser': nothing, the record of an
\* account, the JSON text null, and a text that is not JSON
StoredValues == {None, "null", "{\"userId\":"} \cup {Stringify(u) : u \in Users}
\* JSON.parse(text): whether it returns, and the value it returns
Parse(text) ==
    IF \E u \in Users : Stringify(u) = text
    THEN [ok |-> TRUE, value |-> CHOOSE u \in Users : Stringify(u) = text]
    ELSE IF text = "null" THEN [ok |-> TRUE, value |-> None]
    ELSE [ok |-> FALSE, value |-> None]
\* getSocket(userId): the module's socket, created on first use
getSocket(current, userId) == IF current = None THEN userId ELSE current

\* the tempIds of handleVoiceRecorded (same generator, other draws)
VoiceTempIds == <<"v1c3r5t7y", "w2d4f6g8h", "x9z8y7w6v", "a8s7d6f5g", "h4j3k2l1q", "e6r5t4y3u">>
\* the first one that neither the log nor an outstanding upload holds
FreshVoiceId(prev, uploads) ==
    LET used(k) == HasId(prev, VoiceTempIds[k]) \/ \E u \in uploads : u.tempId = VoiceTempIds[k]
    IN  VoiceTempIds[CHOOSE k \in 1..Len(VoiceTempIds) :
                         ~used(k) /\ \A j \in 1..(k - 1) : used(j)]

\* the state of the Chat component
chatVars == <<activeChat, messages, inputText, isTyping, isLoading, senderTypingTimeout,
              receiverTypingTimeout, now, historyFetches, imageUploads, voiceUploads>>

Init ==
    /\ activeChat = None
    /\ messages = <<>>
    /\ inputText = ""
    /\ isTyping = FALSE
    /\ isLoading = FALSE
    /\ senderTypingTimeout = {}
    /\ receiverTypingTimeout = {}
    /\ now = 0
    /\ historyFetches = [p \in Peers |-> 0]
    /\ imageUploads = [p \in Peers |-> 0]
    /\ voiceUploads = {}
    /\ toast = NoToast
    /\ refreshed = {}
    /\ user = Me
    /\ chatUser = Stringify(Me)
    /\ loading = FALSE
    /\ socket = Me
    /\ emitted = <<>>
    /\ last = Last("init", "")

\* handleReceiveMessage without the active-conversation filter
handleReceiveMessage_NoFilter(msg) ==
    /\ isTyping' = FALSE
    /\ receiverTypingTimeout' = ClearTimeout(receiverTypingTimeout)
    /\ emitted' = IF msg.from = activeChat
                  THEN <<Emit("markAsRead", activeChat)>> ELSE <<>>
    /\ messages' = mergeReceived(messages, msg)
    /\ Len(messages') <= MaxLog
    /\ toast' = NoToast
    /\ refreshed' = {"friends"}
    /\ UNCHANGED appVars
    /\ last' = Last("receiveMessage",
                   IF messages' = messages /\ HasId(messages, msg.id) THEN "duplicate" ELSE "")
    /\ UNCHANGED <<activeChat, inputText, isLoading, senderTypingTimeout, now,
                   historyFetches, imageUploads, voiceUploads>>

\* handleReceiveMessage leaving the typing indicator as it is
handleReceiveMessage_KeepsIndicator(msg) ==
    /\ UNCHANGED <<isTyping, receiverTypingTimeout>>
    /\ emitted' = IF activeChat # None /\ msg.from = activeChat
                  THEN <<Emit("markAsRead", activeChat)>> ELSE <<>>
    /\ messages' = receivedLog(activeChat, messages, msg)
    /\ Len(messages') <= MaxLog
    /\ toast' = NoToast
    /\ refreshed' = {"friends"}
    /\ UNCHANGED appVars
    /\ last' = Last("receiveMessage",
                   IF messages' = messages /\ HasId(messages, msg.id) THEN "duplicate" ELSE "")
    /\ UNCHANGED <<activeChat, inputText, isLoading, senderTypingTimeout, now,
                   historyFetches, imageUploads, voiceUploads>>

\* handleReceiveMessage emitting the read receipt for every message of the
\* active conversation, the user's own included
handleReceiveMessage_ReceiptForEcho(msg) ==
    /\ IF activeChat # None /\ (msg.from = activeChat \/ msg.to = activeChat)
       THEN /\ isTyping' = FALSE
            /\ receiverTypingTimeout' = ClearTimeout(receiverTypingTimeout)
            /\ emitted' = <<Emit("markAsRead", activeChat)>>
       ELSE /\ UNCHANGED <<isTyping, receiverTypingTimeout>>
            /\ emitted' = <<>>
    /\ messages' = receivedLog(activeChat, messages, msg)
    /\ Len(messages') <= MaxLog
    /\ toast' = NoToast
    /\ refreshed' = {"friends"}
    /\ UNCHANGED appVars
    /\ last' = Last("receiveMessage",
                   IF messages' = messages /\ HasId(messages, msg.id) THEN "duplicate" ELSE "")
    /\ UNCHANGED <<activeChat, inputText, isLoading, senderTypingTimeout, now,
                   historyFetches, imageUploads, voiceUploads>>

handleReceiveMessage(msg) ==
    /\ IF activeChat # None /\ (msg.from = activeChat \/ msg.to = activeChat)
       THEN /\ isTyping' = FALSE
            /\ receiverTypingTimeout' = ClearTimeout(receiverTypingTimeout)
            /\ emitted' = IF msg.from = activeChat
                          THEN <<Emit("markAsRead", activeChat)>> ELSE <<>>
       ELSE /\ UNCHANGED <<isTyping, receiverTypingTimeout>>
            /\ emitted' = <<>>
    /\ messages' = receivedLog(activeChat, messages, msg)
    /\ Len(messages') <= MaxLog
    /\ toast' = NoToast
    /\ refreshed' = {"friends"}
    /\ UNCHANGED appVars
    /\ last' = Last("receiveMessage",
                   IF messages' = messages /\ HasId(messages, msg.id) THEN "duplicate" ELSE "")
    /\ UNCHANGED <<activeChat, inputText, isLoading, senderTypingTimeout, now,
                   historyFetches, imageUploads, voiceUploads>>

handleMessageSent(data) ==
    /\ messages' = mergeSent(messages, data)
    /\ emitted' = <<>>
    /\ toast' = NoToast
    /\ refreshed' = {}
    /\ UNCHANGED appVars
    /\ last' = Last("messageSent", "")
    /\ UNCHANGED <<activeChat, inputText, isTyping, isLoading, senderTypingTimeout,
                   receiverTypingTimeout, now, historyFetches, imageUploads, voiceUploads>>

\* sendMessage leaving the idle timeout pending
sendMessage_NoClear ==
    /\ inputText # "" /\ activeChat # None
    /\ Len(messages) < MaxLog
    /\ UNCHANGED senderTypingTimeout
    /\ emitted' = <<Emit("stopTyping", activeChat), Emit("sendMessage", activeChat)>>
    /\ messages' = Append(messages,
           Message(FreshTempId(messages), Me, activeChat, inputText, "text", now, "sent", None))
    /\ inputText' = ""
    /\ toast' = NoToast
    /\ refreshed' = {"friends"}
    /\ UNCHANGED appVars
    /\ last' = Last("sendMessage", "")
    /\ UNCHANGED <<activeChat, isTyping, isLoading, receiverTypingTimeout, now,
                   historyFetches, imageUploads, voiceUploads>>

sendMessage ==
    /\ inputText # "" /\ activeChat # None
    /\ Len(messages) < MaxLog
    /\ senderTypingTimeout' = ClearTimeout(senderTypingTimeout)
    /\ emitted' = <<Emit("stopTyping", activeChat), Emit("sendMessage", activeChat)>>
    /\ messages' = Append(messages,
           Message(FreshTempId(messages), Me, activeChat, inputText, "text", now, "sent", None))
    /\ inputText' = ""
    /\ toast' = NoToast
    /\ refreshed' = {"friends"}
    /\ UNCHANGED appVars
    /\ last' = Last("sendMessage", "")
    /\ UNCHANGED <<activeChat, isTyping, isLoading, receiverTypingTimeout, now,
                   historyFetches, imageUploads, voiceUploads>>

\* handleInputChange arming a new timeout without cancelling the pending one
handleInputChange_NoClear(text) ==
    /\ inputText' = text
    /\ IF activeChat = None
       THEN /\ emitted' = <<>>
            /\ UNCHANGED senderTypingTimeout
       ELSE IF text # ""
       THEN /\ emitted' = <<Emit("typing", activeChat)>>
            /\ senderTypingTimeout' =
                   SetTimeout(senderTypingTimeout, now + SENDER_IDLE_MS, activeChat)
       ELSE /\ emitted' = <<Emit("stopTyping", activeChat)>>
            /\ senderTypingTimeout' = ClearTimeout(senderTypingTimeout)
    /\ toast' = NoToast
    /\ refreshed' = {}
    /\ UNCHANGED appVars
    /\ last' = Last("inputChange", "")
    /\ UNCHANGED <<activeChat, messages, isTyping, isLoading, receiverTypingTimeout, now,
                   historyFetches, imageUploads, voiceUploads>>

handleInputChange(text) ==
    /\ inputText' = text
    /\ IF activeChat = None
       THEN /\ emitted' = <<>>
            /\ UNCHANGED senderTypingTimeout
       ELSE IF text # ""
       THEN /\ emitted' = <<Emit("typing", activeChat)>>
            /\ senderTypingTimeout' =
                   SetTimeout(ClearTimeout(senderTypingTimeout), now + SENDER_IDLE_MS, activeChat)
       ELSE /\ emitted' = <<Emit("stopTyping", activeChat)>>
            /\ senderTypingTimeout' = ClearTimeout(senderTypingTimeout)
    /\ toast' = NoToast
    /\ refreshed' = {}
    /\ UNCHANGED appVars
    /\ last' = Last("inputChange", "")
    /\ UNCHANGED <<activeChat, messages, isTyping, isLoading, receiverTypingTimeout, now,
                   historyFetches, imageUploads, voiceUploads>>

\* selectChat leaving the receiver's timeout pending
selectChat_KeepsReceiverTimer(friend) ==
    /\ InFlight(historyFetches) < MaxInFlight
    /\ senderTypingTimeout' = ClearTimeout(senderTypingTimeout)
    /\ UNCHANGED receiverTypingTimeout
    /\ emitted' = IF activeChat # None THEN <<Emit("stopTyping", activeChat)>> ELSE <<>>
    /\ isTyping' = FALSE
    /\ inputText' = ""
    /\ activeChat' = friend
    /\ messages' = <<>>
    /\ isLoading' = TRUE
    /\ historyFetches' = [historyFetches EXCEPT ![friend] = @ + 1]
    /\ toast' = NoToast
    /\ refreshed' = {}
    /\ UNCHANGED appVars
    /\ last' = Last("selectChat", "")
    /\ UNCHANGED <<now, imageUploads, voiceUploads>>

\* selectChat up to the await of the history request
selectChat(friend) ==
    /\ InFlight(historyFetches) < MaxInFlight
    /\ senderTypingTimeout' = ClearTimeout(senderTypingTimeout)
    /\ receiverTypingTimeout' = ClearTimeout(receiverTypingTimeout)
    /\ emitted' = IF activeChat # None THEN <<Emit("stopTyping", activeChat)>> ELSE <<>>
    /\ isTyping' = FALSE
    /\ inputText' = ""
    /\ activeChat' = friend
    /\ messages' = <<>>
    /\ isLoading' = TRUE
    /\ historyFetches' = [historyFetches EXCEPT ![friend] = @ + 1]
    /\ toast' = NoToast
    /\ refreshed' = {}
    /\ UNCHANGED appVars
    /\ last' = Last("selectChat", "")
    /\ UNCHANGED <<now, imageUploads, voiceUploads>>

\* What the history request for `friend` may return: data.messages || []
Histories(friend) ==
    {<<>>} \cup { <<m>> : m \in {x \in ServerMsgs :
                    x.from = friend /\ x.id \in {SrvId(2, 1, 1, 1, 2), SrvId(4, 1, 1, 1, 2)}} }

\* selectChat resumed after the await, the request having succeeded;
\* `friend` is the argument its closure holds
historyLoaded(friend) ==
    /\ historyFetches[friend] > 0
    /\ historyFetches' = [historyFetches EXCEPT ![friend] = @ - 1]
    /\ \E data \in Histories(friend) : messages' = data
    /\ emitted' = <<Emit("markAsRead", friend)>>
    /\ isLoading' = FALSE
    /\ toast' = NoToast
    /\ refreshed' = {}
    /\ UNCHANGED appVars
    /\ last' = Last("historyLoaded", friend)
    /\ UNCHANGED <<activeChat, inputText, isTyping, senderTypingTimeout,
                   receiverTypingTimeout, now, imageUploads, voiceUploads>>

\* historyFailed issuing the request again
historyFailed_Retries(friend) ==
    /\ historyFetches[friend] > 0
    /\ UNCHANGED historyFetches
    /\ isLoading' = TRUE
    /\ emitted' = <<>>
    /\ toast' = Toast("Failed to load messages", "error")
    /\ refreshed' = {}
    /\ UNCHANGED appVars
    /\ last' = Last("historyFailed", friend)
    /\ UNCHANGED <<activeChat, messages, inputText, isTyping, senderTypingTimeout,
                   receiverTypingTimeout, now, imageUploads, voiceUploads>>

\* selectChat resumed after the await, the request having failed
historyFailed(friend) ==
    /\ historyFetches[friend] > 0
    /\ historyFetches' = [historyFetches EXCEPT ![friend] = @ - 1]
    /\ isLoading' = FALSE
    /\ emitted' = <<>>
    /\ toast' = Toast("Failed to load messages", "error")
    /\ refreshed' = {}
    /\ UNCHANGED appVars
    /\ last' = Last("historyFailed", friend)
    /\ UNCHANGED <<activeChat, messages, inputText, isTyping, senderTypingTimeout,
                   receiverTypingTimeout, now, imageUploads, voiceUploads>>

handleBackToFriends ==
    /\ activeChat # None
    /\ activeChat' = None
    /\ emitted' = <<>>
    /\ toast' = NoToast
    /\ refreshed' = {}
    /\ UNCHANGED appVars
    /\ last' = Last("backToFriends", "")
    /\ UNCHANGED <<messages, inputText, isTyping, isLoading, senderTypingTimeout,
                   receiverTypingTimeout, now, historyFetches, imageUploads, voiceUploads>>

\* handleFileUpload up to the await of the upload request
handleFileUpload ==
    /\ activeChat # None
    /\ InFlight(imageUploads) < MaxInFlight
    /\ imageUploads' = [imageUploads EXCEPT ![activeChat] = @ + 1]
    /\ emitted' = <<>>
    /\ toast' = NoToast
    /\ refreshed' = {}
    /\ UNCHANGED appVars
    /\ last' = Last("fileUpload", "")
    /\ UNCHANGED <<activeChat, messages, inputText, isTyping, isLoading, senderTypingTimeout,
                   receiverTypingTimeout, now, historyFetches, voiceUploads>>

\* handleFileUpload resumed after the await, the upload having succeeded;
\* `to` is the activeChat its closure captured
imageUploaded(to) ==
    /\ imageUploads[to] > 0
    /\ Len(messages) < MaxLog
    /\ imageUploads' = [imageUploads EXCEPT ![to] = @ - 1]
    /\ emitted' = <<Emit("sendMessage", to)>>
    /\ messages' = Append(messages, Message("", Me, to, "[Image]", "image", now, "sent", None))
    /\ toast' = NoToast
    /\ refreshed' = {}
    /\ UNCHANGED appVars
    /\ last' = Last("imageUploaded", to)
    /\ UNCHANGED <<activeChat, inputText, isTyping, isLoading, senderTypingTimeout,
                   receiverTypingTimeout, now, historyFetches, voiceUploads>>

\* handleFileUpload resumed after the await, the upload having failed
imageUploadFailed(to) ==
    /\ imageUploads[to] > 0
    /\ imageUploads' = [imageUploads EXCEPT ![to] = @ - 1]
    /\ emitted' = <<>>
    /\ toast' = Toast("Image upload failed", "error")
    /\ refreshed' = {}
    /\ UNCHANGED appVars
    /\ last' = Last("imageUploadFailed", to)
    /\ UNCHANGED <<activeChat, messages, inputText, isTyping, isLoading, senderTypingTimeout,
                   receiverTypingTimeout, now, historyFetches, voiceUploads>>

\* userTyping arming a new timeout without cancelling the pending one
userTyping_NoClear(fromUserId) ==
    /\ IF activeChat = fromUserId
       THEN /\ isTyping' = TRUE
            /\ receiverTypingTimeout' =
                   SetTimeout(receiverTypingTimeout, now + RECEIVER_STALE_MS, None)
       ELSE UNCHANGED <<isTyping, receiverTypingTimeout>>
    /\ emitted' = <<>>
    /\ toast' = NoToast
    /\ refreshed' = {}
    /\ UNCHANGED appVars
    /\ last' = Last("userTyping", "")
    /\ UNCHANGED <<activeChat, messages, inputText, isLoading, senderTypingTimeout, now,
                   historyFetches, imageUploads, voiceUploads>>

userTyping(fromUserId) ==
    /\ IF activeChat = fromUserId
       THEN /\ isTyping' = TRUE
            /\ receiverTypingTimeout' =
                   SetTimeout(ClearTimeout(receiverTypingTimeout), now + RECEIVER_STALE_MS, None)
       ELSE UNCHANGED <<isTyping, receiverTypingTimeout>>
    /\ emitted' = <<>>
    /\ toast' = NoToast
    /\ refreshed' = {}
    /\ UNCHANGED appVars
    /\ last' = Last("userTyping", "")
    /\ UNCHANGED <<activeChat, messages, inputText, isLoading, senderTypingTimeout, now,
                   historyFetches, imageUploads, voiceUploads>>

\* userStopTyping without the active-conversation test
userStopTyping_NoFilter(fromUserId) ==
    /\ isTyping' = FALSE
    /\ receiverTypingTimeout' = ClearTimeout(receiverTypingTimeout)
    /\ emitted' = <<>>
    /\ toast' = NoToast
    /\ refreshed' = {}
    /\ UNCHANGED appVars
    /\ last' = Last("userStopTyping", "")
    /\ UNCHANGED <<activeChat, messages, inputText, isLoading, senderTypingTimeout, now,
                   historyFetches, imageUploads, voiceUploads>>

userStopTyping(fromUserId) ==
    /\ IF activeChat = fromUserId
       THEN /\ isTyping' = FALSE
            /\ receiverTypingTimeout' = ClearTimeout(receiverTypingTimeout)
       ELSE UNCHANGED <<isTyping, receiverTypingTimeout>>
    /\ emitted' = <<>>
    /\ toast' = NoToast
    /\ refreshed' = {}
    /\ UNCHANGED appVars
    /\ last' = Last("userStopTyping", "")
    /\ UNCHANGED <<activeChat, messages, inputText, isLoading, senderTypingTimeout, now,
                   historyFetches, imageUploads, voiceUploads>>

\* handleRecallMessage accepting a placeholder identity
handleRecallMessage_NoGuard(messageId) ==
    /\ IF messageId = ""
       THEN /\ toast' = Toast("action.failed", "error")
            /\ emitted' = <<>>
            /\ UNCHANGED messages
       ELSE /\ emitted' = <<Emit("recallMessage", activeChat)>>
            /\ messages' = markRecalled(messages, messageId)
            /\ toast' = Toast("chat.youRecalled", "success")
    /\ refreshed' = {}
    /\ UNCHANGED appVars
    /\ last' = Last("recallMessage", "")
    /\ UNCHANGED <<activeChat, inputText, isTyping, isLoading, senderTypingTimeout,
                   receiverTypingTimeout, now, historyFetches, imageUploads, voiceUploads>>

handleRecallMessage(messageId) ==
    /\ IF messageId = ""
       THEN /\ toast' = Toast("action.failed", "error")
            /\ emitted' = <<>>
            /\ UNCHANGED messages
       ELSE IF Len(messageId) < PLACEHOLDER_LEN
       THEN /\ toast' = Toast("Syncing message, please try again...", "info")
            /\ emitted' = <<>>
            /\ UNCHANGED messages
       ELSE /\ emitted' = <<Emit("recallMessage", activeChat)>>
            /\ messages' = markRecalled(messages, messageId)
            /\ toast' = Toast("chat.youRecalled", "success")
    /\ refreshed' = {}
    /\ UNCHANGED appVars
    /\ last' = Last("recallMessage", "")
    /\ UNCHANGED <<activeChat, inputText, isTyping, isLoading, senderTypingTimeout,
                   receiverTypingTimeout, now, historyFetches, imageUploads, voiceUploads>>

handleDeleteMessage(messageId) ==
    /\ DeleteRoom(messages, messageId)
    /\ IF messageId = ""
       THEN /\ toast' = NoToast
            /\ emitted' = <<>>
            /\ UNCHANGED messages
       ELSE IF Len(messageId) < PLACEHOLDER_LEN
       THEN /\ toast' = Toast("Syncing message, please try again...", "info")
            /\ emitted' = <<>>
            /\ UNCHANGED messages
       ELSE /\ emitted' = <<Emit("deleteMessage", Me)>>
            /\ messages' = markDeleted(messages, messageId, Me, now)
            /\ toast' = Toast("action.deleted", "success")
    /\ refreshed' = {}
    /\ UNCHANGED appVars
    /\ last' = Last("deleteMessage", "")
    /\ UNCHANGED <<activeChat, inputText, isTyping, isLoading, senderTypingTimeout,
                   receiverTypingTimeout, now, historyFetches, imageUploads, voiceUploads>>

handleMessageRecalled(data) ==
    /\ messages' = markRecalled(messages, data.messageId)
    /\ emitted' = <<>>
    /\ toast' = NoToast
    /\ refreshed' = {"friends"}
    /\ UNCHANGED appVars
    /\ last' = Last("messageRecalled", "")
    /\ UNCHANGED <<activeChat, inputText, isTyping, isLoading, senderTypingTimeout,
                   receiverTypingTimeout, now, historyFetches, imageUploads, voiceUploads>>

handleMessageDeleted(data) ==
    /\ DeleteRoom(messages, data.messageId)
    /\ messages' = markDeleted(messages, data.messageId, data.deletedBy, data.deletedAt)
    /\ emitted' = <<>>
    /\ toast' = NoToast
    /\ refreshed' = {}
    /\ UNCHANGED appVars
    /\ last' = Last("messageDeleted", "")
    /\ UNCHANGED <<activeChat, inputText, isTyping, isLoading, senderTypingTimeout,
                   receiverTypingTimeout, now, historyFetches, imageUploads, voiceUploads>>

\* handleRecallError undoing the optimistic recall marks
handleRecallError_RollsBack(data) ==
    /\ toast' = Toast(IF data.message # "" THEN data.message ELSE "action.failed", "error")
    /\ messages' = [i \in 1..Len(messages) |-> [messages[i] EXCEPT !.isRecalled = FALSE]]
    /\ emitted' = <<>>
    /\ refreshed' = {}
    /\ UNCHANGED appVars
    /\ last' = Last("recallError", "")
    /\ UNCHANGED <<activeChat, inputText, isTyping, isLoading, senderTypingTimeout,
                   receiverTypingTimeout, now, historyFetches, imageUploads, voiceUploads>>

handleRecallError(data) ==
    /\ toast' = Toast(IF data.message # "" THEN data.message ELSE "action.failed", "error")
    /\ emitted' = <<>>
    /\ refreshed' = {}
    /\ UNCHANGED appVars
    /\ last' = Last("recallError", "")
    /\ UNCHANGED <<messages, activeChat, inputText, isTyping, isLoading, senderTypingTimeout,
                   receiverTypingTimeout, now, historyFetches, imageUploads, voiceUploads>>

handleMessagesRead(data) ==
    /\ IF activeChat # None /\ activeChat = data.byUserId
       THEN messages' = markRead(messages)
       ELSE UNCHANGED messages
    /\ emitted' = <<>>
    /\ toast' = NoToast
    /\ refreshed' = {}
    /\ UNCHANGED appVars
    /\ last' = Last("messagesRead", data.byUserId)
    /\ UNCHANGED <<activeChat, inputText, isTyping, isLoading, senderTypingTimeout,
                   receiverTypingTimeout, now, historyFetches, imageUploads, voiceUploads>>

\* handleVoiceRecorded up to the await of the upload request
handleVoiceRecorded ==
    /\ activeChat # None
    /\ Len(messages) < MaxLog
    /\ Cardinality(voiceUploads) < MaxInFlight
    /\ LET tempId == FreshVoiceId(messages, voiceUploads)
       IN  /\ messages' = Append(messages,
                  Message(tempId, Me, activeChat, "[Voice]", "voice", now, "sending", "blob:"))
           /\ voiceUploads' = voiceUploads \cup {[tempId |-> tempId, to |-> activeChat, ts |-> now]}
    /\ emitted' = <<>>
    /\ toast' = NoToast
    /\ refreshed' = {}
    /\ UNCHANGED appVars
    /\ last' = Last("voiceRecorded", "")
    /\ UNCHANGED <<activeChat, inputText, isTyping, isLoading, senderTypingTimeout,
                   receiverTypingTimeout, now, historyFetches, imageUploads>>

\* handleVoiceRecorded resumed after the await, the upload having succeeded;
\* u holds the tempId and the activeChat its closure captured
voiceUploaded(u) ==
    /\ u \in voiceUploads
    /\ voiceUploads' = voiceUploads \ {u}
    /\ emitted' = <<Emit("sendMessage", u.to)>>
    /\ messages' = [i \in 1..Len(messages) |->
                      IF messages[i].id = u.tempId
                      THEN [messages[i] EXCEPT !.id = u.tempId, !.from = Me, !.to = u.to,
                                               !.content = "[Voice]", !.type = "voice",
                                               !.blobUrl = "blob:", !.ts = u.ts,
                                               !.status = "sent"]
                      ELSE messages[i]]
    /\ toast' = NoToast
    /\ refreshed' = {}
    /\ UNCHANGED appVars
    /\ last' = Last("voiceUploaded", u.to)
    /\ UNCHANGED <<activeChat, inputText, isTyping, isLoading, senderTypingTimeout,
                   receiverTypingTimeout, now, historyFetches, imageUploads>>

\* the failure branch of handleVoiceRecorded leaving the upload outstanding,
\* to be tried again
voiceUploadFailed_Retries(u) ==
    /\ u \in voiceUploads
    /\ UNCHANGED voiceUploads
    /\ emitted' = <<>>
    /\ messages' = [i \in 1..Len(messages) |->
                      IF messages[i].id = u.tempId
                      THEN [messages[i] EXCEPT !.status = "error"] ELSE messages[i]]
    /\ toast' = Toast("Voice upload failed", "error")
    /\ refreshed' = {}
    /\ UNCHANGED appVars
    /\ last' = Last("voiceUploadFailed", u.to)
    /\ UNCHANGED <<activeChat, inputText, isTyping, isLoading, senderTypingTimeout,
                   receiverTypingTimeout, now, historyFetches, imageUploads>>

\* handleVoiceRecorded resumed after the await, the upload having failed
voiceUploadFailed(u) ==
    /\ u \in voiceUploads
    /\ voiceUploads' = voiceUploads \ {u}
    /\ emitted' = <<>>
    /\ messages' = [i \in 1..Len(messages) |->
                      IF messages[i].id = u.tempId
                      THEN [messages[i] EXCEPT !.status = "error"] ELSE messages[i]]
    /\ toast' = Toast("Voice upload failed", "error")
    /\ refreshed' = {}
    /\ UNCHANGED appVars
    /\ last' = Last("voiceUploadFailed", u.to)
    /\ UNCHANGED <<activeChat, inputText, isTyping, isLoading, senderTypingTimeout,
                   receiverTypingTimeout, now, historyFetches, imageUploads>>

\* handleConnect announcing the user without refreshing the requests
handleConnect_FriendsOnly ==
    /\ user # None /\ socket # None
    /\ emitted' = <<Emit("join", user)>>
    /\ refreshed' = {"friends"}
    /\ toast' = NoToast
    /\ last' = Last("connect", "")
    /\ UNCHANGED <<chatVars, appVars>>

\* handleConnect: the socket's connect event (first connection and every
\* reconnection); the socket effect also calls it when it runs connected
handleConnect ==
    /\ user # None /\ socket # None
    /\ emitted' = <<Emit("join", user)>>
    /\ refreshed' = {"friends", "requests"}
    /\ toast' = NoToast
    /\ last' = Last("connect", "")
    /\ UNCHANGED <<chatVars, appVars>>

\* the socket effect of Chat, run once the component is mounted
chatSocketEffect ==
    /\ user # None /\ ~loading
    /\ socket' = getSocket(socket, user)
    /\ emitted' = <<>>
    /\ refreshed' = {}
    /\ toast' = NoToast
    /\ last' = Last("socketEffect", "")
    /\ UNCHANGED <<chatVars, user, chatUser, loading>>

\* App startup keeping a record that does not parse
appStartup_KeepsRecord ==
    /\ loading
    /\ loading' = FALSE
    /\ IF chatUser # None /\ Parse(chatUser).ok
       THEN user' = Parse(chatUser).value
       ELSE UNCHANGED user
    /\ UNCHANGED chatUser
    /\ emitted' = <<>>
    /\ refreshed' = {}
    /\ toast' = NoToast
    /\ last' = Last("startup", "")
    /\ UNCHANGED <<chatVars, socket>>

\* App: the effect run at startup
appStartup ==
    /\ loading
    /\ loading' = FALSE
    /\ IF chatUser = None
       THEN UNCHANGED <<user, chatUser>>
       ELSE IF Parse(chatUser).ok
       THEN user' = Parse(chatUser).value /\ UNCHANGED chatUser
       ELSE chatUser' = None /\ UNCHANGED user
    /\ emitted' = <<>>
    /\ refreshed' = {}
    /\ toast' = NoToast
    /\ last' = Last("startup", "")
    /\ UNCHANGED <<chatVars, socket>>

\* Auth.handleSubmit with a successful login, and App.handleLogin
handleLogin(data) ==
    /\ ~loading /\ user = None
    /\ chatUser' = Stringify(data)
    /\ user' = data
    /\ emitted' = <<>>
    /\ refreshed' = {}
    /\ toast' = Toast("auth.loginSuccess", "success")
    /\ last' = Last("login", data)
    /\ UNCHANGED <<chatVars, loading, socket>>

\* App.handleLogout
handleLogout ==
    /\ ~loading /\ user # None
    /\ chatUser' = None
    /\ user' = None
    /\ emitted' = <<>>
    /\ refreshed' = {}
    /\ toast' = NoToast
    /\ last' = Last("logout", "")
    /\ UNCHANGED <<chatVars, loading, socket>>

\* the page is loaded again: the components and the modules start afresh,
\* localStorage is kept
pageLoad ==
    /\ user' = None
    /\ loading' = TRUE
    /\ socket' = None
    /\ activeChat' = None
    /\ messages' = <<>>
    /\ inputText' = ""
    /\ isTyping' = FALSE
    /\ isLoading' = FALSE
    /\ senderTypingTimeout' = {}
    /\ receiverTypingTimeout' = {}
    /\ historyFetches' = [p \in Peers |-> 0]
    /\ imageUploads' = [p \in Peers |-> 0]
    /\ voiceUploads' = {}
    /\ emitted' = <<>>
    /\ refreshed' = {}
    /\ toast' = NoToast
    /\ last' = Last("pageLoad", "")
    /\ UNCHANGED <<now, chatUser>>

\* localStorage written from outside the page (another tab, the user)
storageWritten(text) ==
    /\ chatUser' = text
    /\ emitted' = <<>>
    /\ refreshed' = {}
    /\ toast' = NoToast
    /\ last' = Last("storage", "")
    /\ UNCHANGED <<chatVars, user, loading, socket>>

\* the callback of a sender idle timeout, run at its deadline
senderTimeoutFires ==
    /\ \E t \in senderTypingTimeout :
         /\ t.at = now
         /\ emitted' = <<Emit("stopTyping", t.to)>>
         /\ senderTypingTimeout' = senderTypingTimeout \ {t}
    /\ toast' = NoToast
    /\ refreshed' = {}
    /\ UNCHANGED appVars
    /\ last' = Last("senderTimeout", "")
    /\ UNCHANGED <<activeChat, messages, inputText, isTyping, isLoading,
                   receiverTypingTimeout, now, historyFetches, imageUploads, voiceUploads>>

\* the callback of a receiver stale timeout, run at its deadline
receiverTimeoutFires ==
    /\ \E t \in receiverTypingTimeout :
         /\ t.at = now
         /\ receiverTypingTimeout' = receiverTypingTimeout \ {t}
    /\ isTyping' = FALSE
    /\ emitted' = <<>>
    /\ toast' = NoToast
    /\ refreshed' = {}
    /\ UNCHANGED appVars
    /\ last' = Last("receiverTimeout", "")
    /\ UNCHANGED <<activeChat, messages, inputText, isLoading, senderTypingTimeout, now,
                   historyFetches, imageUploads, voiceUploads>>

\* 1000 ms pass, up to the horizon of the run (in ticks); a timeout that is
\* due runs before time passes
Tick(horizon) ==
    /\ now < horizon * 1000
    /\ ~Due(senderTypingTimeout) /\ ~Due(receiverTypingTimeout)
    /\ now' = now + 1000
    /\ emitted' = <<>>
    /\ toast' = NoToast
    /\ refreshed' = {}
    /\ UNCHANGED appVars
    /\ last' = Last("tick", "")
    /\ UNCHANGED <<activeChat, messages, inputText, isTyping, isLoading, senderTypingTimeout,
                   receiverTypingTimeout, historyFetches, imageUploads, voiceUploads>>

(***************************************************************************)
(* The whole component.                                                    *)
(***************************************************************************)
\* the identities the server names in messageRecalled / messageDeleted
ServerIds == {m.id : m \in ServerMsgs}
\* the payloads of messageDeleted: the message, the actor and the time
DeletedEvents(ids, actors) ==
    {[messageId |-> id, deletedBy |-> a, deletedAt |-> now] : id \in ids, a \in actors}
\* the payloads of recallError: with or without a message
RecallErrors == {[message |-> "recall window passed"], [message |-> ""]}

Next ==
    \/ \E msg \in ServerMsgs : handleReceiveMessage(msg)
    \/ \E data \in ServerMsgs : handleMessageSent(data)
    \/ sendMessage
    \/ \E text \in {"hi", "yo", ""} : handleInputChange(text)
    \/ \E friend \in Peers : selectChat(friend)
    \/ \E friend \in Peers : historyLoaded(friend)
    \/ \E friend \in Peers : historyFailed(friend)
    \/ handleBackToFriends
    \/ handleFileUpload
    \/ \E to \in Peers : imageUploaded(to)
    \/ \E to \in Peers : imageUploadFailed(to)
    \/ \E p \in Peers : userTyping(p)
    \/ \E p \in Peers : userStopTyping(p)
    \/ \E messageId \in RecallMenu(messages) : handleRecallMessage(messageId)
    \/ \E messageId \in DeleteMenu(messages) : handleDeleteMessage(messageId)
    \/ \E id \in ServerIds : handleMessageRecalled([messageId |-> id])
    \/ \E data \in DeletedEvents(ServerIds, Peers \cup {Me}) : handleMessageDeleted(data)
    \/ \E data \in RecallErrors : handleRecallError(data)
    \/ \E p \in Peers : handleMessagesRead([byUserId |-> p])
    \/ handleVoiceRecorded
    \/ \E u \in voiceUploads : voiceUploaded(u)
    \/ \E u \in voiceUploads : voiceUploadFailed(u)
    \/ handleConnect
    \/ chatSocketEffect
    \/ appStartup
    \/ \E data \in Users : handleLogin(data)
    \/ handleLogout
    \/ pageLoad
    \/ \E text \in StoredValues : storageWritten(text)
    \/ senderTimeoutFires
    \/ receiverTimeoutFires
    \/ Tick(MaxTicks)

Spec == Init /\ [][Next]_vars

(***************************************************************************)
(* The matcher at work: conversation A is opened and the user exchanges    *)
(* messages in it.                                                         *)
(***************************************************************************)
\* the server's events for conversation A: every echo and confirmation of
\* the user's messages, and the peer's messages
LogMsgs ==
    {m \in ServerMsgs :
        \/ m.from = Me /\ m.to = "A" /\ m.content = "hi" /\ m.type = "text"
        \/ m.from = Me /\ m.to = "A" /\ m.ts = 0 /\ m.id \in {SrvId(1, 2, 1, 1, 1), SrvId(1, 1, 2, 1, 1)}
        \/ m.id = SrvId(2, 1, 1, 1, 1)}

\* conversation A has been opened and its history has arrived:
\* the state after selectChat("A") and historyLoaded("A")
InitLog ==
    /\ activeChat = "A"
    /\ messages \in Histories("A")
    /\ inputText = ""
    /\ isTyping = FALSE
    /\ isLoading = FALSE
    /\ senderTypingTimeout = {}
    /\ receiverTypingTimeout = {}
    /\ now = 0
    /\ historyFetches = [p \in Peers |-> 0]
    /\ imageUploads = [p \in Peers |-> 0]
    /\ voiceUploads = {}
    /\ toast = NoToast
    /\ refreshed = {}
    /\ user = Me
    /\ chatUser = Stringify(Me)
    /\ loading = FALSE
    /\ socket = Me
    /\ emitted = <<Emit("markAsRead", "A")>>
    /\ last = Last("historyLoaded", "A")

NextLog ==
    \/ \E msg \in LogMsgs : handleReceiveMessage(msg)
    \/ \E data \in {m \in LogMsgs : m.from = Me} : handleMessageSent(data)
    \/ sendMessage
    \/ \E text \in {"hi", ""} : handleInputChange(text)
    \/ senderTimeoutFires
    \/ Tick(LogTicks)

SpecLog == InitLog /\ [][NextLog]_vars

(***************************************************************************)
(* The session controller at work: conversations are opened, left and      *)
(* switched while history requests and image uploads are outstanding.      *)
(***************************************************************************)
NextSession ==
    \/ \E friend \in Peers : selectChat(friend)
    \/ \E friend \in Peers : historyLoaded(friend)
    \/ \E friend \in Peers : historyFailed(friend)
    \/ handleBackToFriends
    \/ handleFileUpload
    \/ \E to \in Peers : imageUploaded(to)
    \/ \E to \in Peers : imageUploadFailed(to)
    \/ \E text \in {"hi", ""} : handleInputChange(text)
    \/ sendMessage

SpecSession == Init /\ [][NextSession]_vars

(***************************************************************************)
(* The read confirmations at work: conversations are opened and left, the  *)
(* user sends, and the peers confirm reading.                              *)
(***************************************************************************)
NextRead ==
    \/ \E friend \in Peers : selectChat(friend)
    \/ \E friend \in Peers : historyLoaded(friend)
    \/ handleBackToFriends
    \/ handleInputChange("hi")
    \/ sendMessage
    \/ \E p \in Peers : handleMessagesRead([byUserId |-> p])

SpecRead == Init /\ [][NextRead]_vars

(***************************************************************************)
(* The typing guard at work: the peer's typing events, the user's          *)
(* keystrokes, the two timeouts and the clock.                             *)
(***************************************************************************)
\* the peers' messages that reach the client while it shows typing
TypingMsgs == {m \in ServerMsgs : m.id \in {SrvId(2, 1, 1, 1, 1), SrvId(4, 1, 1, 1, 1)}}

NextTyping ==
    \/ \E p \in Peers : userTyping(p)
    \/ \E p \in Peers : userStopTyping(p)
    \/ \E text \in {"hi", ""} : handleInputChange(text)
    \/ \E msg \in TypingMsgs : handleReceiveMessage(msg)
    \/ \E friend \in Peers : selectChat(friend)
    \/ \E friend \in Peers : historyFailed(friend)
    \/ handleBackToFriends
    \/ senderTimeoutFires
    \/ receiverTimeoutFires
    \/ Tick(MaxTicks)

SpecTyping == Init /\ [][NextTyping]_vars

(***************************************************************************)
(* The log entries at work: conversation A is open and its entries are     *)
(* sent, confirmed, recalled, deleted and read.                            *)
(***************************************************************************)
\* the server's events for conversation A: the echo and confirmation of the
\* user's "hi" (the peer's message is the one of the history)
EntryMsgs == {m \in ServerMsgs : m.id = SrvId(1, 1, 1, 1, 1)}
\* the identities messageRecalled / messageDeleted name: the user's message
\* and the peer's
EntryIds == {SrvId(1, 1, 1, 1, 1), SrvId(2, 1, 1, 1, 2)}

NextEntry ==
    \/ \E msg \in EntryMsgs : handleReceiveMessage(msg)
    \/ \E data \in {m \in EntryMsgs : m.from = Me} : handleMessageSent(data)
    \/ handleInputChange("hi")
    \/ sendMessage
    \/ \E messageId \in RecallMenu(messages) : handleRecallMessage(messageId)
    \/ \E messageId \in DeleteMenu(messages) : handleDeleteMessage(messageId)
    \/ \E id \in EntryIds : handleMessageRecalled([messageId |-> id])
    \/ \E data \in DeletedEvents(EntryIds, {Me, "A"}) : handleMessageDeleted(data)
    \/ \E data \in RecallErrors : handleRecallError(data)
    \/ \E p \in Peers : handleMessagesRead([byUserId |-> p])

SpecEntry == InitLog /\ [][NextEntry]_vars

(***************************************************************************)
(* The per-viewer delete at work: conversation A is open, and the user and *)
(* the peer delete its entries.                                            *)
(***************************************************************************)
NextDelete ==
    \/ \E msg \in EntryMsgs : handleReceiveMessage(msg)
    \/ \E data \in {m \in EntryMsgs : m.from = Me} : handleMessageSent(data)
    \/ handleInputChange("hi")
    \/ sendMessage
    \/ \E messageId \in DeleteMenu(messages) : handleDeleteMessage(messageId)
    \/ \E data \in DeletedEvents(EntryIds, {Me, "A"}) : handleMessageDeleted(data)

SpecDelete == InitLog /\ [][NextDelete]_vars

(***************************************************************************)
(* The local sends at work: conversation A is open and the user sends      *)
(* text, images and voice messages, and uses the menu of the entries.      *)
(***************************************************************************)
NextSend ==
    \/ handleInputChange("hi")
    \/ sendMessage
    \/ handleFileUpload
    \/ \E to \in Peers : imageUploaded(to)
    \/ \E to \in Peers : imageUploadFailed(to)
    \/ handleVoiceRecorded
    \/ \E u \in voiceUploads : voiceUploaded(u)
    \/ \E u \in voiceUploads : voiceUploadFailed(u)
    \/ \E data \in {m \in EntryMsgs : m.from = Me} : handleMessageSent(data)
    \/ \E messageId \in RecallMenu(messages) : handleRecallMessage(messageId)
    \/ \E messageId \in DeleteMenu(messages) : handleDeleteMessage(messageId)

SpecSend == InitLog /\ [][NextSend]_vars

(***************************************************************************)
(* The typing indicator at work: conversations are opened and left, peers  *)
(* type and stop, and messages of both directions arrive.                  *)
(***************************************************************************)
\* a message of each peer, and the echo of the user's message to A
IndicatorMsgs ==
    {m \in ServerMsgs :
        m.id \in {SrvId(1, 1, 1, 1, 1), SrvId(2, 1, 1, 1, 1), SrvId(4, 1, 1, 1, 1)}}

NextIndicator ==
    \/ \E p \in Peers : userTyping(p)
    \/ \E p \in Peers : userStopTyping(p)
    \/ \E msg \in IndicatorMsgs : handleReceiveMessage(msg)
    \/ \E friend \in Peers : selectChat(friend)
    \/ \E friend \in Peers : historyFailed(friend)
    \/ handleBackToFriends
    \/ receiverTimeoutFires
    \/ Tick(MaxTicks)

SpecIndicator == Init /\ [][NextIndicator]_vars

(***************************************************************************)
(* The recall at work: conversation A is open, the user sends, the server  *)
(* confirms, the user recalls and the server accepts or rejects.           *)
(***************************************************************************)
NextRecall ==
    \/ handleInputChange("hi")
    \/ sendMessage
    \/ \E data \in {m \in EntryMsgs : m.from = Me} : handleMessageSent(data)
    \/ \E messageId \in RecallMenu(messages) : handleRecallMessage(messageId)
    \/ \E id \in EntryIds : handleMessageRecalled([messageId |-> id])
    \/ \E data \in RecallErrors : handleRecallError(data)

SpecRecall == InitLog /\ [][NextRecall]_vars

(***************************************************************************)
(* The keystrokes at work, with time that passes: the user types, sends,   *)
(* opens conversations and goes back, and a timeout that is due runs.      *)
(***************************************************************************)
\* the user types while the run has time left for the idle timeout to expire
NextKeys ==
    \/ now + SENDER_IDLE_MS <= MaxTicks * 1000 /\ handleInputChange("hi")
    \/ handleInputChange("")
    \/ sendMessage
    \/ \E friend \in Peers : selectChat(friend)
    \/ \E friend \in Peers : historyFailed(friend)
    \/ handleBackToFriends
    \/ senderTimeoutFires
    \/ Tick(MaxTicks)

\* the event loop runs a timeout that is due, and time passes
FairKeys == WF_vars(senderTimeoutFires) /\ WF_vars(Tick(MaxTicks))

SpecKeys == Init /\ [][NextKeys]_vars /\ FairKeys

(***************************************************************************)
(* The send confirmations at work: the user sends in one conversation,     *)
(* opens the other, and the server confirms.                               *)
(***************************************************************************)
\* the confirmations of the user's "hi", to either peer
ConfirmMsgs == {m \in ServerMsgs : m.id \in {SrvId(1, 1, 1, 1, 1), SrvId(3, 1, 1, 1, 1)}}

NextConfirm ==
    \/ \E friend \in Peers : selectChat(friend)
    \/ \E friend \in Peers : historyLoaded(friend)
    \/ handleInputChange("hi")
    \/ sendMessage
    \/ \E data \in ConfirmMsgs : handleMessageSent(data)

SpecConfirm == Init /\ [][NextConfirm]_vars

(***************************************************************************)
(* The application shell at work: the page loads, the session is resumed   *)
(* from localStorage, users log in and out, and the socket connects.       *)
(***************************************************************************)
\* the page has just been loaded for the first time: localStorage is empty
InitApp ==
    /\ activeChat = None
    /\ messages = <<>>
    /\ inputText = ""
    /\ isTyping = FALSE
    /\ isLoading = FALSE
    /\ senderTypingTimeout = {}
    /\ receiverTypingTimeout = {}
    /\ now = 0
    /\ historyFetches = [p \in Peers |-> 0]
    /\ imageUploads = [p \in Peers |-> 0]
    /\ voiceUploads = {}
    /\ emitted = <<>>
    /\ toast = NoToast
    /\ refreshed = {}
    /\ user = None
    /\ chatUser = None
    /\ loading = TRUE
    /\ socket = None
    /\ last = Last("pageLoad", "")

NextApp ==
    \/ appStartup
    \/ \E data \in Users : handleLogin(data)
    \/ handleLogout
    \/ pageLoad
    \/ \E text \in StoredValues : storageWritten(text)
    \/ chatSocketEffect
    \/ handleConnect

SpecApp == InitApp /\ [][NextApp]_vars

(***************************************************************************)
(* Properties of the matcher.                                              *)
(***************************************************************************)
\* the placeholder m has the content and the type of the confirmation d
Matches(m, d) == IsPlaceholder(m) /\ m.content = d.content /\ m.type = d.type
InWindow(m, d) == Abs(m.ts - d.ts) < MERGE_WINDOW_MS
\* the confirmations the server may send for a message of the user in the open
\* conversation: their identity is new to the log
OwnMsgsTo == [p \in Peers \cup {None} |-> {d \in ServerMsgs : d.from = Me /\ d.to = p}]
Confirmations == {d \in OwnMsgsTo[activeChat] : ~HasId(messages, d.id)}
\* entry i is the earliest placeholder d matches within the window
EarliestMatch(i, d) ==
    /\ Matches(messages[i], d) /\ InWindow(messages[i], d)
    /\ \A j \in 1..(i - 1) : ~(Matches(messages[j], d) /\ InWindow(messages[j], d))
NoMatch(d) ==
    \A i \in 1..Len(messages) : ~(Matches(messages[i], d) /\ InWindow(messages[i], d))

\* C1: a receive-message event delivered a second time leaves the log, its
\* length and every entry, as the first delivery left it.
C1_IdempotentRedelivery ==
    \A msg \in ServerMsgs :
        LET once == receivedLog(activeChat, messages, msg)
        IN  receivedLog(activeChat, once, msg) = once

\* a receive-message event whose identity the log already held has been
\* handled and absorbed
C1_Redelivered ==
    /\ last = Last("receiveMessage", "duplicate")
    /\ Len(messages) > 0

\* C2: a confirmation from the local user replaces the earliest placeholder it
\* matches (content, type, timestamp within 5000 ms) in place, also when an
\* earlier placeholder with that content and type lies outside the window.
C2_OptimisticMerge ==
    \A d \in Confirmations : \A i \in 1..Len(messages) :
        EarliestMatch(i, d) =>
            LET r == receivedLog(activeChat, messages, d)
                s == mergeSent(messages, d)
            IN  /\ Len(r) = Len(messages) /\ r[i].id = d.id
                /\ Len(s) = Len(messages) /\ s[i].id = d.id

C4_FifoConsumption ==
    \A d \in Confirmations : \A i, j \in 1..Len(messages) :
        (/\ i < j
         /\ EarliestMatch(i, d)
         /\ Matches(messages[j], d) /\ InWindow(messages[j], d))
        => LET r == receivedLog(activeChat, messages, d)
               s == mergeSent(messages, d)
           IN  /\ r[i].id = d.id /\ r[j] = messages[j]
               /\ s[i].id = d.id /\ s[j] = messages[j]

\* C5: no two entries of the log carry the same identity.
C5_NoDuplicateIds ==
    \A i, j \in 1..Len(messages) : i # j => messages[i].id # messages[j].id

\* the one message the scenario sends is confirmed in `log`
Confirmed(log, i, d) ==
    /\ Len(log) = Len(messages)
    /\ log[i].id = d.id /\ log[i].status = "sent"
    /\ \A k \in 1..Len(log) : k # i => log[k] = messages[k]

\* C6: a text message sent once (no other placeholder has its content) and
\* confirmed within the window, by messageSent, by the echo, or by both in
\* either order, ends as one entry with the server's identity and status sent.
C6_SendThenConfirm ==
    \A d \in Confirmations : \A i \in 1..Len(messages) :
        (/\ messages[i].from = Me /\ messages[i].type = "text"
         /\ Matches(messages[i], d) /\ InWindow(messages[i], d)
         /\ \A j \in 1..Len(messages) :
                j # i => ~(IsPlaceholder(messages[j]) /\ messages[j].content = d.content))
        => /\ Confirmed(mergeSent(messages, d), i, d)
           /\ Confirmed(receivedLog(activeChat, messages, d), i, d)
           /\ Confirmed(receivedLog(activeChat, mergeSent(messages, d), d), i, d)
           /\ Confirmed(mergeSent(receivedLog(activeChat, messages, d), d), i, d)

\* the message was sent, messageSent gave it the server's identity, and the
\* echo that followed was absorbed
C6_Confirmed ==
    /\ last = Last("receiveMessage", "duplicate")
    /\ Len(messages) = 1
    /\ messages[1].from = Me /\ messages[1].type = "text"
    /\ ~IsPlaceholder(messages[1]) /\ messages[1].status = "sent"

(***************************************************************************)
(* Properties of the session controller.                                   *)
(***************************************************************************)
\* C7: the history response of a conversation that is no longer the active
\* one is discarded: it leaves the log of the now-active conversation alone.
C7_StaleHistoryDiscarded ==
    [][\A friend \in Peers :
          (historyLoaded(friend) /\ activeChat \in Peers \ {friend})
          => messages' = messages]_vars

\* C8: the completion of an image upload started in a conversation that is no
\* longer the active one appends nothing to the log of the now-active one.
C8_StaleUploadDiscarded ==
    [][\A to \in Peers :
          (imageUploaded(to) /\ activeChat \in Peers \ {to})
          => messages' = messages]_vars

(***************************************************************************)
(* Properties of the typing guard.                                         *)
(***************************************************************************)
\* C9: a typing event from the active peer sets the flag and starts a window
\* of 5000 ms, cancelling the one pending; while the flag is set such a
\* window is pending and not overdue, only a typing event moves its deadline,
\* and at the deadline the timeout clears the flag.
C9_TypingExpiry ==
    /\ [](isTyping => \E t \in receiverTypingTimeout : t.cur /\ now <= t.at)
    /\ [][\A p \in Peers :
            (userTyping(p) /\ p = activeChat)
            => /\ isTyping'
               /\ receiverTypingTimeout' = {Timeout(now + RECEIVER_STALE_MS, None)}]_vars
    /\ [][(isTyping /\ isTyping' /\ receiverTypingTimeout' # receiverTypingTimeout)
            => activeChat \in Peers /\ userTyping(activeChat)]_vars
    /\ [][receiverTimeoutFires
            => ~isTyping' /\ receiverTypingTimeout' = {}]_vars

\* the flag was set by a typing event and the timeout has cleared it, with the
\* conversation still open
C9_Expired ==
    /\ last = Last("receiverTimeout", "")
    /\ ~isTyping /\ activeChat \in Peers
    /\ now >= RECEIVER_STALE_MS

\* C10: every non-empty input event emits typing only and leaves exactly one
\* idle timeout pending, due 2000 ms later (the earlier one is cancelled); the
\* timeout emits exactly one stopTyping, at its deadline, to the peer of the
\* run, and leaves none pending.
C10_SenderDebounce ==
    /\ [](Cardinality(senderTypingTimeout) <= 1)
    /\ [][\A text \in {"hi"} :
            (handleInputChange(text) /\ activeChat # None)
            => /\ emitted' = <<Emit("typing", activeChat)>>
               /\ senderTypingTimeout' = {Timeout(now + SENDER_IDLE_MS, activeChat)}]_vars
    /\ [][senderTimeoutFires
            => /\ \E t \in senderTypingTimeout :
                    t.at = now /\ emitted' = <<Emit("stopTyping", t.to)>>
               /\ senderTypingTimeout' = {}]_vars

\* a keystroke at 1000 ms has been followed by the stopTyping of the timeout
\* at 3000 ms, with the conversation still open
C10_Debounced ==
    /\ last = Last("senderTimeout", "")
    /\ emitted = <<Emit("stopTyping", "A")>>
    /\ activeChat = "A" /\ inputText = "hi"
    /\ now = 1000 + SENDER_IDLE_MS

(***************************************************************************)
(* Properties of the typing guard across conversation switches.            *)
(***************************************************************************)
\* C11: when the user selects conversation B while the idle timeout is still
\* armed for A (directly from A, or after going back to the friend list), the
\* switch cancels the timeout and emits the one final stopTyping for A in its
\* place, and nothing for B; and while a conversation is open no timeout armed
\* for another peer is pending, so B's peer gets no event meant for A.
C11_SwitchWhileTyping ==
    /\ [](activeChat \in Peers => \A t \in senderTypingTimeout : t.to = activeChat)
    /\ [][\A friend \in Peers : \A t \in senderTypingTimeout :
            (selectChat(friend) /\ t.to # friend)
            => /\ emitted' = <<Emit("stopTyping", t.to)>>
               /\ senderTypingTimeout' = {}]_vars

\* C16: a conversation switch and the return to the friend list leave neither
\* the sender idle timeout nor the receiver stale timeout armed.
C16_TimerTeardown ==
    [][((\E friend \in Peers : selectChat(friend)) \/ handleBackToFriends)
         => senderTypingTimeout' = {} /\ receiverTypingTimeout' = {}]_vars

C12_PlaceholderGuard ==
    [][\A messageId \in RecallMenu(messages) \cup DeleteMenu(messages) :
          ((handleRecallMessage(messageId) \/ handleDeleteMessage(messageId))
             /\ Len(messageId) < PLACEHOLDER_LEN)
          => emitted' = <<>> /\ messages' = messages]_vars

\* a recall of a text placeholder has just been turned down
C12_Rejected ==
    /\ last.op = "recallMessage"
    /\ toast = Toast("Syncing message, please try again...", "info")
    /\ emitted = <<>>
    /\ \E i \in 1..Len(messages) :
         IsPlaceholder(messages[i]) /\ messages[i].id # "" /\ ~messages[i].isRecalled

\* C15: no log entry has a placeholder identity together with the status sent.
C15_MessageLifecycle ==
    \A i \in 1..Len(messages) : IsPlaceholder(messages[i]) => messages[i].status # "sent"

(***************************************************************************)
(* Properties of the log entries.                                          *)
(***************************************************************************)
\* C13: an entry that is recalled stays in its place and stays recalled
\* through every later event of the open conversation, and it is drawn as a
\* notice without content.
C13_RecallTerminal ==
    /\ [][\A i \in 1..Len(messages) :
            messages[i].isRecalled
            => i <= Len(messages') /\ messages'[i].isRecalled]_vars
    /\ [](\A i \in 1..Len(messages) :
            messages[i].isRecalled
            => /\ MessageBubble(messages[i]).kind = "notice"
               /\ MessageBubble(messages[i]).content = None)

\* the user's message was recalled and the peer's read confirmation has
\* then marked it read
C13_RecalledThenRead ==
    /\ last.op = "messagesRead"
    /\ \E i \in 1..Len(messages) :
         messages[i].from = Me /\ messages[i].isRecalled /\ messages[i].isRead

\* C14: the local user is shown exactly the entries whose deletedBy does not
\* name the local user; a delete by the local user (local or by messageDeleted)
\* hides the entries of that identity and no other, a messageDeleted of the
\* peer hides none, and neither takes an entry out of the log.
C14_PerViewerDelete ==
    /\ [](\A i \in 1..Len(messages) : i \in Shown(messages) <=> ~DeletedFor(messages[i], Me))
    /\ [][\A data \in DeletedEvents(EntryIds, {Me, "A"}) :
            handleMessageDeleted(data)
            => /\ Len(messages') = Len(messages)
               /\ \A i \in 1..Len(messages) :
                    i \in Shown(messages')
                    <=> /\ i \in Shown(messages)
                        /\ ~(messages[i].id = data.messageId /\ data.deletedBy = Me)]_vars
    /\ [][\A messageId \in DeleteMenu(messages) :
            (handleDeleteMessage(messageId) /\ Len(messageId) >= PLACEHOLDER_LEN)
            => /\ Len(messages') = Len(messages)
               /\ \A i \in 1..Len(messages) :
                    i \in Shown(messages')
                    <=> i \in Shown(messages) /\ messages[i].id # messageId]_vars

\* the peer has deleted a message for themselves: it is in the log and shown
C14_PeerDeleted ==
    /\ last.op = "messageDeleted"
    /\ \E i \in Shown(messages) :
         /\ messages[i].deletedBy # <<>>
         /\ \A k \in 1..Len(messages[i].deletedBy) : messages[i].deletedBy[k].userId = "A"

\* C17: the deletedBy of every entry names each actor at most once.
C17_DeletedByDistinct ==
    \A i \in 1..Len(messages) :
      \A k, l \in 1..Len(messages[i].deletedBy) :
        k # l => messages[i].deletedBy[k].userId # messages[i].deletedBy[l].userId

\* C19: a messagesRead of the active peer sets isRead on every entry the local
\* user sent and changes nothing else; a messagesRead of anyone else, or with
\* no conversation open, leaves the log unchanged.
C19_MessagesRead ==
    [][\A p \in Peers :
          handleMessagesRead([byUserId |-> p])
          => IF activeChat # None /\ p = activeChat
             THEN /\ Len(messages') = Len(messages)
                  /\ \A i \in 1..Len(messages) :
                       messages'[i] = IF messages[i].from = Me
                                      THEN [messages[i] EXCEPT !.isRead = TRUE]
                                      ELSE messages[i]
             ELSE messages' = messages]_vars

\* the active peer has confirmed reading: the user's entry is read, the
\* peer's own entry is as it was
C19_Read ==
    /\ last = Last("messagesRead", activeChat)
    /\ \E i, j \in 1..Len(messages) :
         /\ messages[i].from = Me /\ messages[i].isRead
         /\ messages[j].from = activeChat /\ ~messages[j].isRead

(***************************************************************************)
(* Properties of the session controller on failure.                        *)
(***************************************************************************)
\* C20: when the history request of selectChat fails, an error notice is
\* shown, isLoading becomes false, the log is left as it is (empty, when the
\* failure follows the selection), nothing is emitted and no request is issued.
C20_HistoryFailure ==
    [][\A friend \in Peers :
          historyFailed(friend)
          => /\ toast' = Toast("Failed to load messages", "error")
             /\ ~isLoading'
             /\ messages' = messages
             /\ (last.op = "selectChat" => messages' = <<>>)
             /\ emitted' = <<>>
             /\ historyFetches' = [historyFetches EXCEPT ![friend] = @ - 1]]_vars

\* the request of the open conversation has just failed
C20_Failed ==
    /\ last = Last("historyFailed", activeChat)
    /\ toast.type = "error" /\ ~isLoading
    /\ messages = <<>> /\ InFlight(historyFetches) = 0

(***************************************************************************)
(* Properties of the application shell.                                    *)
(***************************************************************************)
\* C21: every run of the connect handler emits join with the identity of the
\* logged-in user, and asks for the friend list and the pending requests.
C21_ConnectAnnounces ==
    [][handleConnect
         => /\ emitted' = <<Emit("join", user)>>
            /\ refreshed' = {"friends", "requests"}]_vars

\* the second user of the page has logged in and the socket has connected
C21_Reconnected ==
    /\ last = Last("connect", "")
    /\ user = "u2"
    /\ emitted = <<Emit("join", "u2")>>

\* C22: the startup effect restores the user from the record when there is one
\* and it parses, removes a record that does not parse and stays logged out,
\* and stays logged out without a record; a login stores a record that parses
\* back to the user; logout removes the record and the user.
C22_SessionResume ==
    /\ [](loading => user = None)
    /\ [][appStartup
            => /\ ~loading'
               /\ IF chatUser = None THEN user' = None /\ chatUser' = None
                  ELSE IF Parse(chatUser).ok
                  THEN user' = Parse(chatUser).value /\ chatUser' = chatUser
                  ELSE user' = None /\ chatUser' = None]_vars
    /\ [][\A data \in Users :
            handleLogin(data) => user' = data /\ Parse(chatUser').value = data]_vars
    /\ [][handleLogout => user' = None /\ chatUser' = None]_vars

\* the page was loaded again and the session of the second user was resumed
C22_Resumed ==
    /\ last = Last("startup", "")
    /\ user = "u2" /\ chatUser = Stringify("u2")
    /\ ~loading

(***************************************************************************)
(* Properties of the log across requests and conversations.                *)
(***************************************************************************)
\* C23: when the history of the active conversation arrives, every optimistic
\* entry the log held before (sent while the request was outstanding) has an
\* entry of the same sender, content and type in the log afterwards.
C23_NoLostUpdate ==
    [][\A friend \in Peers :
          (historyLoaded(friend) /\ friend = activeChat)
          => \A i \in {k \in 1..Len(messages) : IsPlaceholder(messages[k])} :
             \E j \in 1..Len(messages') :
                /\ messages'[j].from = messages[i].from
                /\ messages'[j].content = messages[i].content
                /\ messages'[j].type = messages[i].type]_vars

\* the socket events that change entries of the log
LogEvents == {"receiveMessage", "messageSent", "messageRecalled", "messageDeleted",
              "messagesRead"}

\* C24: while conversation A stays open, a receive-message, send-confirmation,
\* recall, delete or read event never removes and never reorders: the log
\* does not get shorter, and every position holds the entry it held (same
\* sender, addressee, content and type; same identity unless the entry was a
\* placeholder).
C24_NoRemoveNoReorder ==
    [][last'.op \in LogEvents
         => /\ Len(messages') >= Len(messages)
            /\ \A i \in 1..Len(messages) :
                 /\ messages'[i].from = messages[i].from
                 /\ messages'[i].to = messages[i].to
                 /\ messages'[i].content = messages[i].content
                 /\ messages'[i].type = messages[i].type
                 /\ messages'[i].id = messages[i].id \/ IsPlaceholder(messages[i])]_vars
\* a delete event arrived for the second of two entries, the first recalled
C24_Kept ==
    /\ last.op = "messageDeleted"
    /\ Len(messages) = 2
    /\ messages[1].isRecalled
    /\ messages[2].deletedBy # <<>>

\* C25: a messageSent for a message addressed to a conversation that is not
\* the active one leaves the log unchanged.
C25_StaleConfirmation ==
    [][\A data \in ConfirmMsgs :
          (handleMessageSent(data) /\ data.to # activeChat)
          => messages' = messages]_vars

\* C26: a received message of the active conversation whose sender is not
\* the local user, and whose identity the log does not hold, is appended and
\* every entry of the log, placeholders included, is left as it was.
C26_PeerNeverMerged ==
    [][\A msg \in LogMsgs :
          (handleReceiveMessage(msg) /\ msg.from # Me /\ ~HasId(messages, msg.id))
          => messages' = Append(messages, msg)]_vars
\* the peer's "hi" of time 0 stands behind the user's placeholder "hi" of time 0
C26_AppendedBehindTwin ==
    /\ last.op = "receiveMessage"
    /\ Len(messages) >= 2
    /\ messages[Len(messages)].id = SrvId(2, 1, 1, 1, 1)
    /\ \E i \in 1..(Len(messages) - 1) :
          /\ IsPlaceholder(messages[i])
          /\ messages[i].content = messages[Len(messages)].content
          /\ messages[i].type = messages[Len(messages)].type
          /\ messages[i].ts = messages[Len(messages)].ts

\* C27: when an echo or a confirmation gives its identity to a placeholder,
\* the entry that results has the event's value in every field the event
\* carries, the placeholder's value in the others (the local blob reference),
\* and status sent.
C27_MergeOverlay ==
    [][\A data \in LogMsgs :
          (handleReceiveMessage(data) \/ handleMessageSent(data))
          => \A i \in 1..Len(messages) :
                (IsPlaceholder(messages[i]) /\ messages'[i].id = data.id)
                => messages'[i] =
                      [Overlay(messages[i], data, ServerFields) EXCEPT !.status = "sent"]]_vars

\* C28: selectChat(friend) leaves the typing flag off, no timeout pending,
\* the log empty, loading on and friend active, and emits one stopTyping to
\* the peer that was active, nothing when none was.
C28_AfterSelect ==
    [][\A friend \in Peers :
          selectChat(friend)
          => /\ ~isTyping'
             /\ senderTypingTimeout' = {}
             /\ receiverTypingTimeout' = {}
             /\ messages' = <<>>
             /\ isLoading'
             /\ activeChat' = friend
             /\ emitted' = IF activeChat # None
                           THEN <<Emit("stopTyping", activeChat)>>
                           ELSE <<>>]_vars
\* B was opened while A was active
C28_Switched ==
    /\ last.op = "selectChat"
    /\ activeChat = "B"
    /\ emitted = <<Emit("stopTyping", "A")>>

\* C29: emptying the input and sending each cancel the idle timeout and emit
\* one stopTyping to the active peer, on a send ahead of the sendMessage;
\* no timeout is pending while the input is empty, so none emits a second one.
C29_CancelAndStop ==
    /\ [](inputText = "" => senderTypingTimeout = {})
    /\ [][(handleInputChange("") /\ activeChat # None)
            => /\ senderTypingTimeout' = {}
               /\ emitted' = <<Emit("stopTyping", activeChat)>>]_vars
    /\ [][sendMessage
            => /\ senderTypingTimeout' = {}
               /\ emitted' = <<Emit("stopTyping", activeChat),
                               Emit("sendMessage", activeChat)>>]_vars
\* a send within the idle time of the last keystroke
C29_SentWhileArmed ==
    /\ last.op = "sendMessage"
    /\ emitted = <<Emit("stopTyping", "A"), Emit("sendMessage", "A")>>
    /\ senderTypingTimeout = {}
    /\ Len(messages) >= 1
    /\ messages[Len(messages)].ts < SENDER_IDLE_MS

\* C30: a userStopTyping of the active peer turns the typing flag off and
\* cancels the receiver's timeout; a userTyping or userStopTyping of anyone
\* else leaves both as they were.
C30_StopTypingGuard ==
    [][\A p \in Peers :
          /\ (userStopTyping(p) /\ p = activeChat)
             => ~isTyping' /\ receiverTypingTimeout' = {}
          /\ ((userTyping(p) \/ userStopTyping(p)) /\ p # activeChat)
             => UNCHANGED <<isTyping, receiverTypingTimeout>>]_vars
\* the other peer stopped typing while the active one is shown as typing
C30_OtherPeerStopped ==
    /\ last.op = "userStopTyping"
    /\ activeChat # None
    /\ isTyping
    /\ receiverTypingTimeout # {}

(***************************************************************************)
(* Properties of the typing indicator and the read receipts.               *)
(***************************************************************************)
\* C31: a message received from the active peer turns the typing flag off
\* and cancels the receiver's timeout; at most one such timeout is pending,
\* the one the ref holds, and whenever the flag is on after the timeout
\* changed, the only one pending is due 5000 ms from now: no earlier timeout
\* is left to clear a flag that a later typing event sets.
C31_MessageSupersedes ==
    /\ [](Cardinality(receiverTypingTimeout) <= 1 /\ \A t \in receiverTypingTimeout : t.cur)
    /\ [][\A msg \in IndicatorMsgs :
            (handleReceiveMessage(msg) /\ activeChat # None /\ msg.from = activeChat)
            => ~isTyping' /\ receiverTypingTimeout' = {}]_vars
    /\ [][(isTyping' /\ receiverTypingTimeout' # receiverTypingTimeout)
            => receiverTypingTimeout' = {Timeout(now + RECEIVER_STALE_MS, None)}]_vars
\* the peer typed again after its message had arrived, 1000 ms or more into
\* the run: the one timeout pending is the new one
C31_TypedAfterMessage ==
    /\ last.op = "userTyping"
    /\ activeChat = "A"
    /\ isTyping
    /\ Len(messages) >= 1 /\ messages[Len(messages)].id = SrvId(2, 1, 1, 1, 1)
    /\ now >= 1000
    /\ receiverTypingTimeout = {Timeout(now + RECEIVER_STALE_MS, None)}

\* C32: the echo of the local user's own message leaves the typing flag and
\* the receiver's timeout as they were.
C32_EchoKeepsIndicator ==
    [][\A msg \in IndicatorMsgs :
          (handleReceiveMessage(msg) /\ msg.from = Me)
          => UNCHANGED <<isTyping, receiverTypingTimeout>>]_vars

\* C33: a receiveMessage emits one markAsRead, naming the active peer, when
\* its sender is the active peer, and nothing otherwise (the user's own echo,
\* a message of another conversation).
C33_ReadReceiptPerMessage ==
    [][\A msg \in IndicatorMsgs :
          handleReceiveMessage(msg)
          => emitted' = IF activeChat # None /\ msg.from = activeChat
                        THEN <<Emit("markAsRead", activeChat)>>
                        ELSE <<>>]_vars
\* the peer's message was delivered again: the log is unchanged, the receipt
\* is emitted once more
C33_ReceiptOnRedelivery ==
    /\ last = Last("receiveMessage", "duplicate")
    /\ activeChat = "A"
    /\ emitted = <<Emit("markAsRead", "A")>>

\* C34: every markAsRead just emitted names the conversation that is open.
C34_ReceiptForActive ==
    \A k \in 1..Len(emitted) : emitted[k].ev = "markAsRead" => emitted[k].to = activeChat

\* C35: while the history request of the open conversation is outstanding,
\* the loading flag is on.
C35_LoadingWhileFetching ==
    (activeChat # None /\ historyFetches[activeChat] > 0) => isLoading

\* C36: a recallError shows an error notice and leaves the log as it is, the
\* entries the user marked recalled included; nothing is emitted.
C36_RecallNotRolledBack ==
    [][\A data \in RecallErrors :
          handleRecallError(data)
          => /\ messages' = messages
             /\ toast'.type = "error"
             /\ emitted' = <<>>]_vars
\* the server rejected the recall of the user's message, which stays recalled
C36_RejectedStaysRecalled ==
    /\ last.op = "recallError"
    /\ toast = Toast("recall window passed", "error")
    /\ \E i \in 1..Len(messages) :
          messages[i].from = Me /\ messages[i].isRecalled /\ ~IsPlaceholder(messages[i])

\* C37: when a voice upload fails, its entry (if the log still holds it) gets
\* status error and keeps its placeholder identity, every other entry is as
\* it was, nothing is emitted and the upload is not outstanding any more.
C37_VoiceUploadFailure ==
    [][\A u \in voiceUploads :
          voiceUploadFailed(u)
          => /\ emitted' = <<>>
             /\ voiceUploads' = voiceUploads \ {u}
             /\ Len(messages') = Len(messages)
             /\ \A i \in 1..Len(messages) :
                  IF messages[i].id = u.tempId
                  THEN /\ messages'[i] = [messages[i] EXCEPT !.status = "error"]
                       /\ IsPlaceholder(messages'[i])
                  ELSE messages'[i] = messages[i]]_vars
\* the upload of the voice message behind the user's "hi" failed
C37_VoiceFailed ==
    /\ last.op = "voiceUploadFailed"
    /\ voiceUploads = {}
    /\ Len(messages) = 2
    /\ messages[1].status # "error"
    /\ messages[2].type = "voice" /\ messages[2].status = "error"
    /\ IsPlaceholder(messages[2])

\* C38: while the typing flag is on, the receiver's timeout is pending and a
\* conversation is open.
C38_TypingImpliesArmed ==
    isTyping => (receiverTypingTimeout # {} /\ activeChat # None)

\* C39: every typing emitted to a peer is followed, sooner or later, by a
\* stopTyping emitted to that peer.
C39_TypingThenStop ==
    \A p \in Peers :
        (\E k \in 1..Len(emitted) : emitted[k] = Emit("typing", p))
        ~> (\E k \in 1..Len(emitted) : emitted[k] = Emit("stopTyping", p))

\* C40: the socket the Chat component gets from getSocket(user.userId) is one
\* created for that user.
C40_SocketOfUser ==
    [][chatSocketEffect => socket' = user]_vars

====
